---- MODULE Spec2Model ----
(***************************************************************************)
(* Model of the pointr-ga training harness and geometric-algebra layers.   *)
(*                                                                         *)
(*   tools/training.py     Trainer.train / Trainer.test, one action per    *)
(*                         statement group of the loop body                *)
(*   tools/ga_training.py  GaTrainer.train                                 *)
(*   models/ga_models/     MVFormer.py and GPD.py layers, over exact       *)
(*                         integer / rational arithmetic                   *)
(*                                                                         *)
(* Numbers that the code divides are kept as exact fractions [num, den].   *)
(***************************************************************************)
EXTENDS Integers, Sequences, FiniteSets, TLC

VARIABLES
    \* ---- Trainer configuration (Trainer.__init__, self.parameters) ----
    train_epochs,   \* parameters['epochs']
    debug,          \* cfg['debug']
    progressive,    \* cfg['progressive_saves']
    save_step,      \* cfg['save_step']
    scheduler,      \* TRUE iff parameters['scheduler'] is set
    \* ---- Trainer fields ----
    loss_trend,     \* self.loss_trend: epoch key -> list of batch losses
    test_loss,      \* self.test_loss
    \* ---- collaborators ----
    weights,        \* model parameters, as the number of updates applied
    grad,           \* accumulated gradient: the batches back-propagated since zero_grad
    opt_steps,      \* optimizer state: number of optimizer.step calls
    sched_steps,    \* number of scheduler.step calls
    mode,           \* "train" or "eval" (model.eval())
    files,          \* the file system under save_path: path -> content
    \* ---- the running call and its locals ----
    pc,
    dataloader,     \* the dataloader argument of the running call
    calls,          \* which of train / test have been called on this Trainer
    epoch, step, it,
    epoch_loss,     \* epoch_loss in train, batch_loss in test
    refs,           \* the live locals among partial, complete, output, loss
    partial, complete, output, loss,
    \* ---- history ----
    log,            \* the operations performed, in order (the latest LogWindow of them)
    \* ---- InvariantCGENN (models/ga_models/GPD.py): tensor shapes ----
    cg_pc,          \* position in InvariantCGENN.forward
    cg_net,         \* the constructed module: algebra.dim, in_features, layer sizes
    cg_input,       \* the shape of the input tensor
    cg_h,           \* the shape of the tensor flowing through forward
    \* ---- NormalizationLayer (models/ga_models/MVFormer.py) ----
    nl_pc,          \* position in NormalizationLayer.forward
    nl_features,    \* self.in_features
    nl_a,           \* self.a, the learned parameter [max_seq, n_subspaces]
    nl_input,       \* input[b][p]: a multivector per batch entry and position
    nl_s_a,         \* s_a
    nl_norms,       \* norms
    nl_out,         \* normalized
    \* ---- FullyConnectedSteerableGeometricProductLayer (MVFormer.py) ----
    gp_pc,          \* position in forward
    gp_q, gp_k,     \* q and k after projection and normalization: [b][i] -> multivector
    gp_q_einsum,    \* q_einsum [batch, seq, 1, dim]
    gp_k_einsum,    \* k_einsum [batch, 1, seq, dim]
    gp_cayley,      \* cayley [dim, dim, dim]
    gp_output,      \* output [batch, seq, seq, dim]
    \* ---- SelfAttentionGA (MVFormer.py) ----
    sa_pc,          \* position in forward
    sa_x,           \* x after embed_grade: [B, P, 2^d]
    sa_v,           \* v: [B, P, v_features]
    sa_mv_attn,     \* attention scores [B, P, P], in units of ln 3
    sa_attn_probs,  \* softmax of the scores over the last axis
    sa_out,         \* the returned tensor
    \* ---- run directories (main.py, demo/demonet.py) ----
    config,         \* cfgs/GAPoinTr-training.yaml as it stands
    fs,             \* the directories that exist: path -> the names listed in it
    runs,           \* the runs of main.py so far, in order
    demo            \* what demonet.py computed, once it has run

cfgVars   == <<train_epochs, debug, progressive, save_step, scheduler>>
selfVars  == <<loss_trend, test_loss>>
extVars   == <<weights, grad, opt_steps, sched_steps, mode, files>>
localVars == <<pc, dataloader, calls, epoch, step, it, epoch_loss, refs,
               partial, complete, output, loss>>
trainerVars == <<cfgVars, selfVars, extVars, localVars, log>>
netVars   == <<cg_pc, cg_net, cg_input, cg_h>>
normVars  == <<nl_pc, nl_features, nl_a, nl_input, nl_s_a, nl_norms, nl_out>>
gpVars    == <<gp_pc, gp_q, gp_k, gp_q_einsum, gp_k_einsum, gp_cayley, gp_output>>
attVars   == <<sa_pc, sa_x, sa_v, sa_mv_attn, sa_attn_probs, sa_out>>
runVars   == <<config, fs, runs, demo>>
layerVars == <<netVars, normVars, gpVars, attVars, runVars>>
vars      == <<trainerVars, layerVars>>

(***************************************************************************)
(* Bounds                                                                  *)
(***************************************************************************)
MaxEpochs   == 2
MaxBatches  == 2
MaxSaveStep == 2
LogWindow   == 200
MaxBatchSize == 2
MaxDim      == 3
MaxFeatures == 3
MaxSeq      == 2

(***************************************************************************)
(* Values                                                                  *)
(***************************************************************************)
\* An unbound Python local (reading it raises UnboundLocalError).
Unbound == 0 - 1

\* A Python number that may have been divided: num / den; den = 0 is None.
Rat(n, d)    == [num |-> n, den |-> d]
None         == Rat(0, 0)
RatAdd(r, x) == Rat(r.num + x * r.den, r.den)
RatDiv(r, n) == Rat(r.num, r.den * n)
RatEq(a, b)  == a.den # 0 /\ b.den # 0 /\ a.num * b.den = b.num * a.den

Abs(x) == IF x < 0 THEN 0 - x ELSE x

RECURSIVE GCD(_, _)
GCD(a, b) == IF b = 0 THEN a ELSE GCD(b, a % b)

\* a fraction in lowest terms with a positive denominator
Reduce(r) ==
    LET g == GCD(Abs(r.num), Abs(r.den))
        sgn == IF r.den < 0 THEN 0 - 1 ELSE 1
    IN  IF g = 0 THEN r ELSE Rat(sgn * (r.num \div g), sgn * (r.den \div g))

RECURSIVE SumSeq(_)
SumSeq(s) == IF s = <<>> THEN 0 ELSE Head(s) + SumSeq(Tail(s))

\* The (partial, complete) pairs a dataloader may hold.
Batches == { [partial |-> 1, complete |-> 3], [partial |-> 2, complete |-> 5] }

RECURSIVE SeqsUpTo(_, _)
SeqsUpTo(S, n) ==
    IF n = 0 THEN { <<>> }
    ELSE LET shorter == SeqsUpTo(S, n - 1)
         IN  shorter \cup { Append(s, x) : s \in { t \in shorter : Len(t) = n - 1 }, x \in S }

DataLoaders == SeqsUpTo(Batches, MaxBatches)

\* model(partial): the network returns a tuple of clouds (coarse, ..., fine);
\* the last one depends on the current weights.
Model(w, p) == << p, p + (w % 2) >>

\* losses['ChDL1']: a distance between two clouds.
ChDL1(a, b) == Abs(a - b)

Last(s) == s[Len(s)]

\* One entry of the history: the operation, the loop position and an argument
\* (the directory of a save, the weights version of an optimizer step, else 0).
Event(op, arg) == [op |-> op, epoch |-> epoch, step |-> step, arg |-> arg]

\* The history keeps the most recent LogWindow operations.
Logged(evs) ==
    LET l == log \o evs
    IN  IF Len(l) > LogWindow THEN SubSeq(l, Len(l) - LogWindow + 1, Len(l)) ELSE l

\* flush_step = 500 in Trainer.train and Trainer.test
flush_step == 500

NoLocals == {}
AllLocals == {"partial", "complete", "output", "loss"}

(***************************************************************************)
(* Trainer.__init__ and the arguments of the two calls                     *)
(***************************************************************************)
InitTrainer(epochChoices, saveChoices, schedulerChoices, flagChoices) ==
    /\ train_epochs \in epochChoices
    /\ debug \in flagChoices
    /\ progressive \in flagChoices
    /\ save_step \in saveChoices
    /\ scheduler \in schedulerChoices
    /\ loss_trend = << >>
    /\ test_loss = Rat(0, 1)
    /\ weights = 0
    /\ grad = << >>
    /\ opt_steps = 0
    /\ sched_steps = 0
    /\ mode = "train"
    /\ files = [ckpt |-> << >>, final |-> << >>, train_losses |-> << >>,
                test_loss_txt |-> << >>]
    /\ pc = "idle"
    /\ dataloader = << >>
    /\ calls = {}
    /\ epoch = Unbound
    /\ step = Unbound
    /\ it = [e |-> 0, b |-> 0]
    /\ epoch_loss = None
    /\ refs = NoLocals
    /\ partial = Unbound
    /\ complete = Unbound
    /\ output = << >>
    /\ loss = Unbound
    /\ log = << >>

(***************************************************************************)
(* Trainer.train                                                           *)
(***************************************************************************)
\* lines 58-87: the call, its locals, model.to(device)
TrainCall(dl) ==
    /\ pc = "idle"
    /\ calls = {}
    /\ dataloader' = dl
    /\ calls' = calls \cup {"train"}
    /\ epoch' = Unbound
    /\ step' = Unbound
    /\ it' = [e |-> 0, b |-> 0]
    /\ epoch_loss' = None
    /\ refs' = NoLocals
    /\ partial' = Unbound
    /\ complete' = Unbound
    /\ output' = << >>
    /\ loss' = Unbound
    /\ pc' = "t_epoch"
    /\ log' = Logged(<< [op |-> "train", epoch |-> Unbound, step |-> Unbound, arg |-> 0] >>)
    /\ UNCHANGED <<layerVars, cfgVars, selfVars, extVars>>

\* lines 88-90: for epoch in range(train_epochs): epoch_loss = 0
TrainEpoch ==
    /\ pc = "t_epoch"
    /\ IF it.e < train_epochs
       THEN /\ epoch' = it.e
            /\ it' = [e |-> it.e + 1, b |-> 0]
            /\ epoch_loss' = Rat(0, 1)
            /\ pc' = "t_batch"
            /\ log' = Logged(<< [op |-> "epoch", epoch |-> it.e, step |-> step, arg |-> 0] >>)
       ELSE /\ pc' = "t_final"
            /\ UNCHANGED <<epoch, it, epoch_loss, log>>
    /\ UNCHANGED <<layerVars, cfgVars, selfVars, extVars, dataloader, calls, step, refs,
                   partial, complete, output, loss>>

\* lines 91-98: for step, pcd in enumerate(dataloader): partial, complete = pcd
TrainBatch ==
    /\ pc = "t_batch"
    /\ IF it.b < Len(dataloader)
       THEN /\ step' = it.b
            /\ it' = [it EXCEPT !.b = it.b + 1]
            /\ partial' = dataloader[it.b + 1].partial
            /\ complete' = dataloader[it.b + 1].complete
            /\ refs' = refs \cup {"partial", "complete"}
            /\ pc' = "t_zero"
            /\ log' = Logged(<< [op |-> "batch", epoch |-> epoch, step |-> it.b, arg |-> 0] >>)
       ELSE /\ pc' = "t_sched"
            /\ UNCHANGED <<step, it, partial, complete, refs, log>>
    /\ UNCHANGED <<layerVars, cfgVars, selfVars, extVars, dataloader, calls, epoch, epoch_loss, output, loss>>

\* line 94: optimizer.zero_grad()
ZeroGrad ==
    /\ pc = "t_zero"
    /\ grad' = << >>
    /\ pc' = "t_fwd"
    /\ log' = Logged(<< Event("zero_grad", 0) >>)
    /\ UNCHANGED <<layerVars, cfgVars, selfVars, weights, opt_steps, sched_steps, mode, files,
                   dataloader, calls, epoch, step, it, epoch_loss, refs, partial, complete, output, loss>>

\* line 107: output = model(partial)
Forward ==
    /\ pc = "t_fwd"
    /\ output' = Model(weights, partial)
    /\ refs' = refs \cup {"output"}
    /\ pc' = "t_loss"
    /\ log' = Logged(<< Event("forward", 0) >>)
    /\ UNCHANGED <<layerVars, cfgVars, selfVars, extVars, dataloader, calls, epoch, step, it, epoch_loss,
                   partial, complete, loss>>

\* mutant: the loss taken on the first (coarse) output
LossInputFirst(out) == Head(out)

\* line 118: the cloud the loss is taken on, output[-1]
LossInput(out) == Last(out)

\* line 118: loss = loss_fn(output[-1], complete)
Loss ==
    /\ pc = "t_loss"
    /\ loss' = ChDL1(LossInput(output), complete)
    /\ refs' = refs \cup {"loss"}
    /\ pc' = "t_bwd"
    /\ log' = Logged(<< Event("loss", ChDL1(LossInput(output), complete)) >>)
    /\ UNCHANGED <<layerVars, cfgVars, selfVars, extVars, dataloader, calls, epoch, step, it, epoch_loss,
                   partial, complete, output>>

\* line 120: loss.backward() adds this batch's gradient to the accumulated one
Backward ==
    /\ pc = "t_bwd"
    /\ grad' = Append(grad, <<epoch, step>>)
    /\ pc' = "t_step"
    /\ log' = Logged(<< Event("backward", 0) >>)
    /\ UNCHANGED <<layerVars, cfgVars, selfVars, weights, opt_steps, sched_steps, mode, files,
                   dataloader, calls, epoch, step, it, epoch_loss, refs, partial, complete, output, loss>>

\* line 121: optimizer.step()
OptimizerStep ==
    /\ pc = "t_step"
    /\ weights' = weights + 1
    /\ opt_steps' = opt_steps + 1
    /\ pc' = "t_collect"
    /\ log' = Logged(<< Event("optimizer.step", weights + 1) >>)
    /\ UNCHANGED <<layerVars, cfgVars, selfVars, grad, sched_steps, mode, files,
                   dataloader, calls, epoch, step, it, epoch_loss, refs, partial, complete, output, loss>>

\* line 130: epoch_key = "epoch" + "_" + str(epoch)
EpochKey(e) == <<"epoch", e>>

\* mutant: the key's list is started anew for every batch
CollectLatest(trend, key, x) ==
    [k \in DOMAIN trend \cup {key} |-> IF k = key THEN <<x>> ELSE trend[k]]

\* lines 131-134: self.loss_trend[epoch_key] gets loss.item() appended
Collect(trend, key, x) ==
    IF key \in DOMAIN trend
    THEN [trend EXCEPT ![key] = Append(@, x)]
    ELSE [k \in DOMAIN trend \cup {key} |-> IF k = key THEN <<x>> ELSE trend[k]]

\* lines 122-134: epoch_loss += loss.item(); collect epoch losses
TrainCollect ==
    /\ pc = "t_collect"
    /\ epoch_loss' = RatAdd(epoch_loss, loss)
    /\ loss_trend' = Collect(loss_trend, EpochKey(epoch), loss)
    /\ pc' = "t_save"
    /\ UNCHANGED <<layerVars, cfgVars, test_loss, extVars, dataloader, calls, epoch, step, it, refs,
                   partial, complete, output, loss, log>>

\* A raised exception ends the call (and the program: nothing catches it).
Raise ==
    /\ pc' = "raised"
    /\ log' = Logged(<< Event("raise", 0) >>)

\* mutant: the save condition without step > 0
SaveConditionAtZero ==
    step % save_step = 0 /\ progressive /\ ~debug

\* line 137-138: step > 0 and step % self.save_step == 0 and self.progressive and not self.debug
SaveCondition ==
    step > 0 /\ step % save_step = 0 /\ progressive /\ ~debug

\* mutant: the checkpoint records the number of epochs instead of the epoch index
CheckpointEpochCount == [epoch |-> epoch + 1, model |-> weights, optimizer |-> opt_steps]

\* lines 139-143 and 173-177: the checkpoint dictionary
Checkpoint == [epoch |-> epoch, model |-> weights, optimizer |-> opt_steps]

\* line 145: the directory training/<step*(epoch+1)>
SaveDir == step * (epoch + 1)

\* os.makedirs(exist_ok=True) and torch.save: the file is created or overwritten
Put(dirs, d, content) ==
    [k \in DOMAIN dirs \cup {d} |-> IF k = d THEN content ELSE dirs[k]]

\* lines 136-149: progressive save
TrainSave ==
    /\ pc = "t_save"
    /\ IF SaveCondition
       THEN /\ files' = [files EXCEPT !.ckpt = Put(files.ckpt, SaveDir, Checkpoint)]
            /\ log' = Logged(<< Event("save", SaveDir) >>)
       ELSE UNCHANGED <<files, log>>
    /\ pc' = "t_del"
    /\ UNCHANGED <<layerVars, cfgVars, selfVars, weights, grad, opt_steps, sched_steps, mode,
                   dataloader, calls, epoch, step, it, epoch_loss, refs, partial, complete, output, loss>>

\* lines 151-155: del complete, partial, output, loss
TrainDel ==
    /\ pc = "t_del"
    /\ refs' = refs \ AllLocals
    /\ partial' = Unbound
    /\ complete' = Unbound
    /\ output' = << >>
    /\ loss' = Unbound
    /\ pc' = "t_flush"
    /\ log' = Logged(<< Event("del", 0) >>)
    /\ UNCHANGED <<layerVars, cfgVars, selfVars, extVars, dataloader, calls, epoch, step, it, epoch_loss>>

\* mutant: the flush condition without step > 0
TrainFlushAtZero == step % flush_step = 0

\* line 158: step > 0 and step % flush_step == 0
TrainFlushCondition == step > 0 /\ step % flush_step = 0

\* line 164: if self.debug: break (out of the batch loop)
BreakAfterBatch == debug

\* lines 157-164: gc.collect(); torch.cuda.empty_cache(); gc.collect(); debug break
TrainFlush ==
    /\ pc = "t_flush"
    /\ IF TrainFlushCondition
       THEN log' = Logged(<< Event("flush", Cardinality(refs)) >>)
       ELSE UNCHANGED log
    /\ pc' = IF BreakAfterBatch THEN "t_sched" ELSE "t_batch"
    /\ UNCHANGED <<layerVars, cfgVars, selfVars, extVars, dataloader, calls, epoch, step, it, epoch_loss, refs,
                   partial, complete, output, loss>>

\* mutant: the mean taken over the dataloader's length
EpochMeanOverLen == RatDiv(epoch_loss, Len(dataloader))

\* line 167: epoch_loss/(step + 1)
EpochMean == RatDiv(epoch_loss, step + 1)

\* mutant: the epoch loop is not left in debug mode
NoBreakAfterEpoch == FALSE

\* line 170: if self.debug: break (out of the epoch loop)
BreakAfterEpoch == debug

\* mutant: scheduler.step is called whether or not a scheduler is configured
ScheduledAlways == TRUE

\* line 166: if scheduler:
Scheduled == scheduler

\* lines 166-170: scheduler step, epoch mean, debug break
TrainEpochEnd ==
    /\ pc = "t_sched"
    /\ sched_steps' = IF Scheduled THEN sched_steps + 1 ELSE sched_steps
    /\ IF step = Unbound
       THEN /\ pc' = "raised"
            /\ log' = Logged((IF Scheduled THEN << Event("scheduler.step", 0) >> ELSE << >>)
                             \o << Event("raise", 0) >>)
            /\ UNCHANGED epoch_loss
       ELSE /\ epoch_loss' = EpochMean
            /\ pc' = IF BreakAfterEpoch THEN "t_final" ELSE "t_epoch"
            /\ log' = Logged((IF Scheduled THEN << Event("scheduler.step", 0) >> ELSE << >>)
                             \o << Event("epoch_end", 0) >>)
    /\ UNCHANGED <<layerVars, cfgVars, selfVars, weights, grad, opt_steps, mode, files,
                   dataloader, calls, epoch, step, it, refs, partial, complete, output, loss>>

\* mutant: the name epoch is bound even when the loop body never ran
EpochAlwaysBound == FALSE

\* line 174: 'epoch': epoch reads a local that only the for statement of line 88 assigns
EpochUnbound == epoch = Unbound

\* lines 172-191: final save of the checkpoint and of loss_trend
TrainFinal ==
    /\ pc = "t_final"
    /\ IF EpochUnbound
       THEN /\ Raise
            /\ UNCHANGED files
       ELSE /\ files' = [files EXCEPT !.final = << Checkpoint >>,
                                      !.train_losses = << loss_trend >>]
            /\ pc' = "idle"
            /\ log' = Logged(<< Event("final", 0) >>)
    /\ UNCHANGED <<layerVars, cfgVars, selfVars, weights, grad, opt_steps, sched_steps, mode,
                   dataloader, calls, epoch, step, it, epoch_loss, refs, partial, complete, output, loss>>

(***************************************************************************)
(* Trainer.test                                                            *)
(***************************************************************************)
\* lines 200-211: the call, batch_loss = 0, model.eval()
TestCall(dl) ==
    /\ pc = "idle"
    /\ calls \subseteq {"train"}
    /\ dataloader' = dl
    /\ calls' = calls \cup {"test"}
    /\ mode' = "eval"
    /\ epoch' = Unbound
    /\ step' = Unbound
    /\ it' = [e |-> 0, b |-> 0]
    /\ epoch_loss' = Rat(0, 1)
    /\ refs' = NoLocals
    /\ partial' = Unbound
    /\ complete' = Unbound
    /\ output' = << >>
    /\ loss' = Unbound
    /\ pc' = "e_batch"
    /\ log' = Logged(<< [op |-> "test", epoch |-> Unbound, step |-> Unbound, arg |-> 0] >>)
    /\ UNCHANGED <<layerVars, cfgVars, selfVars, weights, grad, opt_steps, sched_steps, files>>

\* lines 212-218: for step, pcd in enumerate(dataloader): partial, complete = pcd
TestBatch ==
    /\ pc = "e_batch"
    /\ IF it.b < Len(dataloader)
       THEN /\ step' = it.b
            /\ it' = [it EXCEPT !.b = it.b + 1]
            /\ partial' = dataloader[it.b + 1].partial
            /\ complete' = dataloader[it.b + 1].complete
            /\ refs' = refs \cup {"partial", "complete"}
            /\ pc' = "e_fwd"
            /\ log' = Logged(<< [op |-> "batch", epoch |-> epoch, step |-> it.b, arg |-> 0] >>)
       ELSE /\ pc' = "e_mean"
            /\ UNCHANGED <<step, it, partial, complete, refs, log>>
    /\ UNCHANGED <<layerVars, cfgVars, selfVars, extVars, dataloader, calls, epoch, epoch_loss, output, loss>>

\* lines 221-222: with torch.no_grad(): output = model(partial)
TestForward ==
    /\ pc = "e_fwd"
    /\ output' = Model(weights, partial)
    /\ refs' = refs \cup {"output"}
    /\ pc' = "e_loss"
    /\ log' = Logged(<< Event("forward", 0) >>)
    /\ UNCHANGED <<layerVars, cfgVars, selfVars, extVars, dataloader, calls, epoch, step, it, epoch_loss,
                   partial, complete, loss>>

\* lines 225-226: loss = loss_fn(output[-1], complete); batch_loss += loss.item()
TestLoss ==
    /\ pc = "e_loss"
    /\ loss' = ChDL1(Last(output), complete)
    /\ epoch_loss' = RatAdd(epoch_loss, ChDL1(Last(output), complete))
    /\ refs' = refs \cup {"loss"}
    /\ pc' = "e_del"
    /\ log' = Logged(<< Event("loss", ChDL1(Last(output), complete)) >>)
    /\ UNCHANGED <<layerVars, cfgVars, selfVars, extVars, dataloader, calls, epoch, step, it,
                   partial, complete, output>>

\* lines 231-235: del complete, partial, output, loss
TestDel ==
    /\ pc = "e_del"
    /\ refs' = refs \ AllLocals
    /\ partial' = Unbound
    /\ complete' = Unbound
    /\ output' = << >>
    /\ loss' = Unbound
    /\ pc' = "e_flush"
    /\ log' = Logged(<< Event("del", 0) >>)
    /\ UNCHANGED <<layerVars, cfgVars, selfVars, extVars, dataloader, calls, epoch, step, it, epoch_loss>>

\* line 236: step > 0 and step % flush_step == 0
TestFlushCondition == step > 0 /\ step % flush_step = 0

\* lines 236-239: gc.collect(); torch.cuda.empty_cache(); gc.collect()
TestFlush ==
    /\ pc = "e_flush"
    /\ IF TestFlushCondition
       THEN log' = Logged(<< Event("flush", Cardinality(refs)) >>)
       ELSE UNCHANGED log
    /\ pc' = "e_batch"
    /\ UNCHANGED <<layerVars, cfgVars, selfVars, extVars, dataloader, calls, epoch, step, it, epoch_loss, refs,
                   partial, complete, output, loss>>

\* mutant: the mean divided by the last index instead of the count
TestMeanByIndex == RatDiv(epoch_loss, step)

\* line 241: batch_loss/(step + 1)
TestMean == RatDiv(epoch_loss, step + 1)

\* line 241: self.test_loss = batch_loss/(step + 1)
TestSetLoss ==
    /\ pc = "e_mean"
    /\ IF step = Unbound
       THEN /\ Raise
            /\ UNCHANGED test_loss
       ELSE /\ test_loss' = TestMean
            /\ pc' = "e_write"
            /\ log' = Logged(<< Event("test_loss", 0) >>)
    /\ UNCHANGED <<layerVars, cfgVars, loss_trend, extVars, dataloader, calls, epoch, step, it, epoch_loss, refs,
                   partial, complete, output, loss>>

\* line 246: f"Test Loss: {str((self.test_loss))}"
TestLossText(x) == << "Test Loss: ", x >>

\* lines 243-246: write evaluation/test_loss.txt
TestWrite ==
    /\ pc = "e_write"
    /\ files' = [files EXCEPT !.test_loss_txt = << TestLossText(test_loss) >>]
    /\ pc' = "idle"
    /\ log' = Logged(<< Event("test_write", 0) >>)
    /\ UNCHANGED <<layerVars, cfgVars, selfVars, weights, grad, opt_steps, sched_steps, mode,
                   dataloader, calls, epoch, step, it, epoch_loss, refs, partial, complete, output, loss>>

(***************************************************************************)
(* GaTrainer.train (tools/ga_training.py)                                  *)
(***************************************************************************)
\* backbone(x): the frozen pretrained network, a tuple of clouds
Backbone(x) == Model(0, x)

\* main_model(raw_output): InvariantCGENN returns one cloud
MainModel(w, x) == x + (w % 2)

\* lines 38-54: the call and its locals
GaTrainCall(dl) ==
    /\ pc = "idle"
    /\ calls = {}
    /\ dataloader' = dl
    /\ calls' = {"ga_train"}
    /\ epoch' = Unbound
    /\ step' = Unbound
    /\ it' = [e |-> 0, b |-> 0]
    /\ epoch_loss' = None
    /\ pc' = "g_epoch"
    /\ log' = Logged(<< [op |-> "ga_train", epoch |-> Unbound, step |-> Unbound, arg |-> 0] >>)
    /\ UNCHANGED <<layerVars, cfgVars, selfVars, extVars, refs, partial, complete, output, loss>>

\* lines 55-56: for epoch in range(train_epochs): epoch_loss = 0
GaEpoch ==
    /\ pc = "g_epoch"
    /\ IF it.e < train_epochs
       THEN /\ epoch' = it.e
            /\ it' = [e |-> it.e + 1, b |-> 0]
            /\ epoch_loss' = Rat(0, 1)
            /\ pc' = "g_batch"
            /\ log' = Logged(<< [op |-> "epoch", epoch |-> it.e, step |-> step, arg |-> 0] >>)
       ELSE /\ pc' = "idle"
            /\ UNCHANGED <<epoch, it, epoch_loss, log>>
    /\ UNCHANGED <<layerVars, cfgVars, selfVars, extVars, dataloader, calls, step, refs,
                   partial, complete, output, loss>>

\* lines 57-60: for batch_idx, pcd in enumerate(dataloader); optimizer.zero_grad()
GaBatch ==
    /\ pc = "g_batch"
    /\ IF it.b < Len(dataloader)
       THEN /\ step' = it.b
            /\ it' = [it EXCEPT !.b = it.b + 1]
            /\ partial' = dataloader[it.b + 1].partial
            /\ complete' = dataloader[it.b + 1].complete
            /\ refs' = refs \cup {"partial", "complete"}
            /\ grad' = << >>
            /\ pc' = "g_fwd"
            /\ log' = Logged(<< [op |-> "batch", epoch |-> epoch, step |-> it.b, arg |-> 0],
                                 [op |-> "zero_grad", epoch |-> epoch, step |-> it.b, arg |-> 0] >>)
       ELSE /\ pc' = "g_mean"
            /\ UNCHANGED <<step, it, partial, complete, refs, grad, log>>
    /\ UNCHANGED <<layerVars, cfgVars, selfVars, weights, opt_steps, sched_steps, mode, files,
                   dataloader, calls, epoch, epoch_loss, output, loss>>

\* lines 62-76: backbone on both clouds, main_model on the last output, the loss
GaForwardLoss ==
    /\ pc = "g_fwd"
    /\ output' = << MainModel(weights, Last(Backbone(partial))) >>
    /\ loss' = ChDL1(MainModel(weights, Last(Backbone(partial))), Last(Backbone(complete)))
    /\ refs' = refs \cup {"output", "loss"}
    /\ pc' = "g_bwd"
    /\ log' = Logged(<< Event("forward", 0),
                         Event("loss", ChDL1(MainModel(weights, Last(Backbone(partial))),
                                             Last(Backbone(complete)))) >>)
    /\ UNCHANGED <<layerVars, cfgVars, selfVars, extVars, dataloader, calls, epoch, step, it,
                   epoch_loss, partial, complete>>

\* lines 77-79: loss.backward(); optimizer.step(); epoch_loss += loss.item()
GaBackwardStep ==
    /\ pc = "g_bwd"
    /\ grad' = Append(grad, <<epoch, step>>)
    /\ weights' = weights + 1
    /\ opt_steps' = opt_steps + 1
    /\ epoch_loss' = RatAdd(epoch_loss, loss)
    /\ pc' = "g_batch"
    /\ log' = Logged(<< Event("backward", 0), Event("optimizer.step", weights + 1) >>)
    /\ UNCHANGED <<layerVars, cfgVars, selfVars, sched_steps, mode, files, dataloader, calls,
                   epoch, step, it, refs, partial, complete, output, loss>>

\* line 81: epoch_loss/(batch_idx + 1)
GaEpochMean == RatDiv(epoch_loss, step + 1)

\* lines 81-83: the epoch mean
GaEpochEnd ==
    /\ pc = "g_mean"
    /\ IF step = Unbound
       THEN /\ Raise
            /\ UNCHANGED epoch_loss
       ELSE /\ epoch_loss' = GaEpochMean
            /\ pc' = "g_epoch"
            /\ log' = Logged(<< Event("epoch_end", 0) >>)
    /\ UNCHANGED <<layerVars, cfgVars, selfVars, extVars, dataloader, calls, epoch, step, it, refs,
                   partial, complete, output, loss>>

GaNext(loaders) ==
    \/ \E dl \in loaders : GaTrainCall(dl)
    \/ GaEpoch \/ GaBatch \/ GaForwardLoss \/ GaBackwardStep \/ GaEpochEnd

TrainerNext(loaders) ==
    \/ \E dl \in loaders : TrainCall(dl)
    \/ \E dl \in loaders : TestCall(dl)
    \/ TrainEpoch \/ TrainBatch \/ ZeroGrad \/ Forward \/ Loss
    \/ Backward \/ OptimizerStep \/ TrainCollect \/ TrainSave \/ TrainDel
    \/ TrainFlush \/ TrainEpochEnd \/ TrainFinal
    \/ TestBatch \/ TestForward \/ TestLoss \/ TestDel \/ TestFlush
    \/ TestSetLoss \/ TestWrite

\* no layer is running
NetOff == cg_pc = "off" /\ cg_net = << >> /\ cg_input = << >> /\ cg_h = << >>
NormOff ==
    /\ nl_pc = "off"
    /\ nl_features = 0
    /\ nl_a = << >>
    /\ nl_input = << >>
    /\ nl_s_a = << >>
    /\ nl_norms = << >>
    /\ nl_out = << >>
GPOff ==
    /\ gp_pc = "off"
    /\ gp_q = << >>
    /\ gp_k = << >>
    /\ gp_q_einsum = << >>
    /\ gp_k_einsum = << >>
    /\ gp_cayley = << >>
    /\ gp_output = << >>
AttOff ==
    /\ sa_pc = "off"
    /\ sa_x = << >>
    /\ sa_v = << >>
    /\ sa_mv_attn = << >>
    /\ sa_attn_probs = << >>
    /\ sa_out = << >>
RunsOff == config = << >> /\ fs = << >> /\ runs = << >> /\ demo = << >>
LayersOff == NetOff /\ NormOff /\ GPOff /\ AttOff /\ RunsOff

\* no trainer is running
TrainerOff == InitTrainer({0}, {1}, {FALSE}, {FALSE})

Init == InitTrainer(0 .. MaxEpochs, 1 .. MaxSaveStep, BOOLEAN, BOOLEAN) /\ LayersOff
Next == TrainerNext(DataLoaders) \/ GaNext(DataLoaders)
Spec == Init /\ [][Next]_vars

(***************************************************************************)
(* Long runs: a dataloader that reaches the flush step                     *)
(***************************************************************************)
LongLoader == [i \in 1 .. flush_step + 1 |->
                 IF i % 2 = 0 THEN [partial |-> 1, complete |-> 3]
                              ELSE [partial |-> 2, complete |-> 5]]

InitLong == InitTrainer({1}, {flush_step}, {FALSE}, BOOLEAN) /\ LayersOff
NextLong == TrainerNext({LongLoader})
SpecLong == InitLong /\ [][NextLong]_vars

\* a dataloader one batch longer than MaxBatches, trained with progressive saves
\* after every batch
SaveLoader == [i \in 1 .. MaxBatches + 1 |-> [partial |-> 1, complete |-> 3]]
InitSave == InitTrainer({MaxEpochs}, {1}, BOOLEAN, BOOLEAN) /\ LayersOff
NextSave == TrainerNext({SaveLoader})
SpecSave == InitSave /\ [][NextSave]_vars

(***************************************************************************)
(* InvariantCGENN (models/ga_models/GPD.py), over tensor shapes            *)
(***************************************************************************)
RECURSIVE Pow(_, _)
Pow(b, e) == IF e = 0 THEN 1 ELSE b * Pow(b, e - 1)

RECURSIVE Prod(_)
Prod(shape) == IF shape = << >> THEN 1 ELSE Head(shape) * Prod(Tail(shape))

\* GPD.py lines 11-25: CGEBlock(algebra, in_features, out_features) maps
\* [batch_size, in_features, 2**d] to [batch_size, out_features, 2**d]
CGEBlock(fin, fout) == [in_features |-> fin, out_features |-> fout]

\* GPD.py lines 29-42: CGEMLP.__init__ with n_layers = 2
CGEMLP(fin, hidden, fout) == << CGEBlock(fin, hidden), CGEBlock(hidden, fout) >>

\* mutant: the final linear layer sized by algebra.dim instead of 2**algebra.dim
UpsamplingDimWise(d, fin, hidden) ==
    [in_features |-> hidden * d, out_features |-> fin * d]

\* GPD.py lines 65-67: nn.Linear(hidden_features * 2**algebra.dim, in_features * algebra.dim)
Upsampling(d, fin, hidden) ==
    [in_features |-> hidden * Pow(2, d), out_features |-> fin * d]

\* GPD.py lines 51-67: InvariantCGENN.__init__
InvariantCGENN(d, fin, hidden) ==
    [dim |-> d, in_features |-> fin, hidden_features |-> hidden,
     cgemlp |-> CGEMLP(fin, hidden, hidden),
     upsampling |-> Upsampling(d, fin, hidden)]

\* GPD.py line 69: forward is called with a batch of multivector clouds
NetCall(B, d, fin, hidden) ==
    /\ cg_pc = "off"
    /\ cg_net' = InvariantCGENN(d, fin, hidden)
    /\ cg_input' = << B, fin, Pow(2, d) >>
    /\ cg_h' = << B, fin, Pow(2, d) >>
    /\ cg_pc' = "cgemlp_1"
    /\ UNCHANGED <<trainerVars, runVars, attVars, normVars, gpVars>>

\* GPD.py lines 22-25 and 44-46: one CGEBlock of self.cgemlp
NetBlock(i) ==
    /\ cg_pc = (IF i = 1 THEN "cgemlp_1" ELSE "cgemlp_2")
    /\ IF cg_h[2] = cg_net.cgemlp[i].in_features
       THEN /\ cg_h' = [cg_h EXCEPT ![2] = cg_net.cgemlp[i].out_features]
            /\ cg_pc' = (IF i = 1 THEN "cgemlp_2" ELSE "flatten")
       ELSE /\ cg_pc' = "error"
            /\ UNCHANGED cg_h
    /\ UNCHANGED <<trainerVars, runVars, attVars, normVars, gpVars, cg_net, cg_input>>

\* GPD.py line 82: h = h.reshape(h.size(0), -1)
NetFlatten ==
    /\ cg_pc = "flatten"
    /\ cg_h' = << cg_h[1], Prod(Tail(cg_h)) >>
    /\ cg_pc' = "upsampling"
    /\ UNCHANGED <<trainerVars, runVars, attVars, normVars, gpVars, cg_net, cg_input>>

\* GPD.py line 84: x = self.upsampling(h)
NetUpsampling ==
    /\ cg_pc = "upsampling"
    /\ IF cg_h[2] = cg_net.upsampling.in_features
       THEN /\ cg_h' = << cg_h[1], cg_net.upsampling.out_features >>
            /\ cg_pc' = "reshape"
       ELSE /\ cg_pc' = "error"
            /\ UNCHANGED cg_h
    /\ UNCHANGED <<trainerVars, runVars, attVars, normVars, gpVars, cg_net, cg_input>>

\* GPD.py line 86: x = x.reshape(-1, self.in_features, self.algebra.dim)
NetReshape ==
    /\ cg_pc = "reshape"
    /\ IF Prod(cg_h) % (cg_net.in_features * cg_net.dim) = 0
       THEN /\ cg_h' = << Prod(cg_h) \div (cg_net.in_features * cg_net.dim),
                          cg_net.in_features, cg_net.dim >>
            /\ cg_pc' = "done"
       ELSE /\ cg_pc' = "error"
            /\ UNCHANGED cg_h
    /\ UNCHANGED <<trainerVars, runVars, attVars, normVars, gpVars, cg_net, cg_input>>

InitNet == TrainerOff /\ LayersOff
NextNet ==
    \/ \E B \in 1 .. MaxBatchSize, d \in 1 .. MaxDim,
          fin \in 1 .. MaxFeatures, hidden \in 1 .. MaxFeatures :
          NetCall(B, d, fin, hidden)
    \/ \E i \in {1, 2} : NetBlock(i)
    \/ NetFlatten
    \/ NetUpsampling
    \/ NetReshape
SpecNet == InitNet /\ [][NextNet]_vars

(***************************************************************************)
(* The Clifford algebra of 3-D points (clifford_lib, metric [1, 1, 1])     *)
(***************************************************************************)
\* algebra.dim for point clouds
AlgebraDim == 3

\* the basis blades, ordered by grade
Blades == << {}, {1}, {2}, {3}, {1, 2}, {1, 3}, {2, 3}, {1, 2, 3} >>
MVDim == Len(Blades)

\* algebra.grades and algebra.subspaces: the grades and the number of blades of each
Grades == 0 .. AlgebraDim
Subspaces == [g \in 1 .. AlgebraDim + 1 |->
                Cardinality({ c \in 1 .. MVDim : Cardinality(Blades[c]) = g - 1 })]
NSubspaces == Len(Subspaces)

\* the subspace (1-based) a component belongs to
GradeOf(c) == Cardinality(Blades[c]) + 1

ISqrt(n) == CHOOSE r \in 0 .. n : r * r = n

RECURSIVE SumSquares(_, _)
SumSquares(mv, S) ==
    IF S = {} THEN 0
    ELSE LET c == CHOOSE y \in S : TRUE IN mv[c] * mv[c] + SumSquares(mv, S \ {c})

\* algebra.norms(mv): the norm of every grade part of a multivector
Norms(mv) ==
    [g \in 1 .. NSubspaces |->
        ISqrt(SumSquares(mv, { c \in 1 .. MVDim : GradeOf(c) = g }))]

\* multivectors whose grade norms are whole numbers
SampleMVs == { << 1, 0, 0, 0, 0, 0, 0, 0 >>,
               << 2, 3, 4, 0, 0, 0, 0, 0 - 1 >>,
               << 0, 1, 0 - 2, 2, 2, 3, 6, 3 >> }

(***************************************************************************)
(* NormalizationLayer (MVFormer.py lines 12-45)                            *)
(***************************************************************************)
\* max_seq = 3000: the number of rows of the parameter a
max_seq == 3000

\* 1e-6 = 1 / EpsDen
EpsDen == 1000000

RatMul(r, x) == Rat(r.num * x, r.den)
RatSum(a, b) == Rat(a.num * b.den + b.num * a.den, a.den * b.den)
IntOver(x, r) == Rat(x * r.den, r.num)

\* Parameter entries are whole multiples of ln 3, so that the sigmoid is a fraction:
\* torch.sigmoid(a * ln 3) = 3^a / (3^a + 1)
Sigmoid(a) == IF a >= 0 THEN Rat(Pow(3, a), Pow(3, a) + 1)
                        ELSE Rat(1, 1 + Pow(3, 0 - a))

\* line 25: self.a = zeros(max_seq, n_subspaces) + init; training changes rows
ParamRows == { << 0 - 1, 1, 0, 2 >>, << 1, 0 - 2, 0 - 1, 0 >> }
Param(learned) == [rows |-> max_seq, init |-> << 0, 0, 0, 0 >>, learned |-> learned]
Row(a, p) == IF p \in DOMAIN a.learned THEN a.learned[p] ELSE a.init

\* mutant: every position scaled with the first row
SliceRowFirst(sa, L, p) == Row(sa, 1)

\* line 37: s_a[:input.shape[1], :], row p of the slice
SliceRow(sa, L, p) == Row(sa, p)

\* mutant: the slice is as long as the input, however long
SliceLenUncapped(sa, L) == L

\* line 37: the number of rows of s_a[:input.shape[1], :]
SliceLen(sa, L) == IF L <= sa.rows THEN L ELSE sa.rows

\* line 37: s_a * (norms - 1) + 1
Interpolate(sg, n) == RatAdd(RatMul(sg, n - 1), 1)

RECURSIVE RepeatInterleave(_, _)
\* line 42: norms.repeat_interleave(self.algebra.subspaces, dim=-1)
RepeatInterleave(row, counts) ==
    IF row = << >> THEN << >>
    ELSE [i \in 1 .. Head(counts) |-> Head(row)] \o RepeatInterleave(Tail(row), Tail(counts))

\* lines 28-30: the call; assert input.shape[2] == self.in_features
NormCall(input) ==
    /\ nl_pc = "init"
    /\ nl_input' = input
    /\ nl_pc' = IF MVDim = nl_features THEN "norms" ELSE "error"
    /\ UNCHANGED <<trainerVars, runVars, attVars, netVars, gpVars, nl_features, nl_a, nl_s_a, nl_norms, nl_out>>

\* line 33: norms = torch.cat(self.algebra.norms(input), dim=-1)
NormNorms ==
    /\ nl_pc = "norms"
    /\ nl_norms' = [b \in DOMAIN nl_input |->
                       [p \in DOMAIN nl_input[b] |-> Norms(nl_input[b][p])]]
    /\ nl_pc' = "sigmoid"
    /\ UNCHANGED <<trainerVars, runVars, attVars, netVars, gpVars, nl_features, nl_a, nl_input, nl_s_a, nl_out>>

\* line 35: s_a = torch.sigmoid(self.a)
NormSigmoid ==
    /\ nl_pc = "sigmoid"
    /\ nl_s_a' = [rows |-> nl_a.rows,
                  init |-> [g \in DOMAIN nl_a.init |-> Sigmoid(nl_a.init[g])],
                  learned |-> [p \in DOMAIN nl_a.learned |->
                                 [g \in DOMAIN nl_a.learned[p] |-> Sigmoid(nl_a.learned[p][g])]]]
    /\ nl_pc' = "interpolate"
    /\ UNCHANGED <<trainerVars, runVars, attVars, netVars, gpVars, nl_features, nl_a, nl_input, nl_norms, nl_out>>

\* line 37: norms = s_a[:input.shape[1], :] * (norms - 1) + 1
\* (the slice has min(L, max_seq) rows and must broadcast against L positions)
NormInterpolate ==
    /\ nl_pc = "interpolate"
    /\ LET L == Len(nl_input[1])
           sliced == SliceLen(nl_s_a, L)
       IN  IF sliced = L \/ sliced = 1 \/ L = 1
           THEN /\ nl_norms' = [b \in DOMAIN nl_norms |->
                                  [p \in DOMAIN nl_norms[b] |->
                                     [g \in 1 .. NSubspaces |->
                                        Interpolate(SliceRow(nl_s_a, L, p)[g], nl_norms[b][p][g])]]]
                /\ nl_pc' = "repeat"
           ELSE /\ nl_pc' = "error"
                /\ UNCHANGED nl_norms
    /\ UNCHANGED <<trainerVars, runVars, attVars, netVars, gpVars, nl_features, nl_a, nl_input, nl_s_a, nl_out>>

\* line 42: norms = norms.repeat_interleave(self.algebra.subspaces, dim=-1)
NormRepeat ==
    /\ nl_pc = "repeat"
    /\ nl_norms' = [b \in DOMAIN nl_norms |->
                      [p \in DOMAIN nl_norms[b] |-> RepeatInterleave(nl_norms[b][p], Subspaces)]]
    /\ nl_pc' = "divide"
    /\ UNCHANGED <<trainerVars, runVars, attVars, netVars, gpVars, nl_features, nl_a, nl_input, nl_s_a, nl_out>>

\* line 44: normalized = input / (norms + 1e-6)
NormDivide ==
    /\ nl_pc = "divide"
    /\ nl_out' = [b \in DOMAIN nl_input |->
                    [p \in DOMAIN nl_input[b] |->
                       [c \in 1 .. MVDim |->
                          IntOver(nl_input[b][p][c], RatSum(nl_norms[b][p][c], Rat(1, EpsDen)))]]]
    /\ nl_pc' = "done"
    /\ UNCHANGED <<trainerVars, runVars, attVars, netVars, gpVars, nl_features, nl_a, nl_input, nl_s_a, nl_norms>>

\* the batch sizes and the inputs [batch, seq, 2^d] tried
BatchSizes == {1, 2}
Clouds(L) == [1 .. L -> SampleMVs]
Inputs == UNION { [1 .. B -> Clouds(L)] : B \in BatchSizes, L \in 1 .. MaxSeq }

\* lines 17-25: NormalizationLayer.__init__
InitNorm ==
    /\ TrainerOff
    /\ NetOff
    /\ GPOff
    /\ AttOff
    /\ RunsOff
    /\ nl_pc = "init"
    /\ nl_features \in {MVDim, AlgebraDim}
    /\ nl_a \in { Param(l) : l \in [1 .. MaxSeq -> ParamRows] }
    /\ nl_input = << >>
    /\ nl_s_a = << >>
    /\ nl_norms = << >>
    /\ nl_out = << >>
NextNorm ==
    \/ \E input \in Inputs : NormCall(input)
    \/ NormNorms
    \/ NormSigmoid
    \/ NormInterpolate
    \/ NormRepeat
    \/ NormDivide
SpecNorm == InitNorm /\ [][NextNorm]_vars

\* inputs as long as the parameter has rows, and one position longer
LongInputs ==
    { [b \in 1 .. 1 |-> [p \in 1 .. L |-> << 0, 1, 0 - 2, 2, 2, 3, 6, 3 >>]] :
         L \in { max_seq, max_seq + 1 } }
ShortInputs == UNION { [1 .. 1 -> Clouds(L)] : L \in 1 .. MaxSeq }
NextSeq ==
    \/ \E input \in ShortInputs \cup LongInputs : NormCall(input)
    \/ NormNorms
    \/ NormSigmoid
    \/ NormInterpolate
    \/ NormRepeat
    \/ NormDivide
SpecSeq == InitNorm /\ [][NextSeq]_vars

(***************************************************************************)
(* FullyConnectedSteerableGeometricProductLayer (MVFormer.py lines 48-116) *)
(***************************************************************************)
\* the sign of the product of two basis blades (metric [1, 1, 1])
BladeSign(A, B) ==
    IF Cardinality({ xy \in A \X B : xy[1] > xy[2] }) % 2 = 0 THEN 1 ELSE 0 - 1

\* algebra.cayley[a, m, c]: the coefficient of blade m in blade a * blade c
Cayley ==
    [a \in 1 .. MVDim |-> [m \in 1 .. MVDim |-> [c \in 1 .. MVDim |->
        IF Blades[m] = (Blades[a] \cup Blades[c]) \ (Blades[a] \cap Blades[c])
        THEN BladeSign(Blades[a], Blades[c]) ELSE 0]]]

RECURSIVE BitLen(_)
BitLen(n) == IF n = 0 THEN 0 ELSE 1 + BitLen(n \div 2)

\* the significand of an IEEE half-precision number has 11 bits
HalfBits == 11

\* tensor.half() on one entry: round to 11 significant bits, ties to even.
\* Entries are whole multiples of a unit far from the half-precision range limits.
Half(x) ==
    LET m   == Abs(x)
        ulp == Pow(2, BitLen(m) - HalfBits)
        lo  == (m \div ulp) * ulp
        rem == m - lo
        up  == IF 2 * rem > ulp THEN TRUE
               ELSE IF 2 * rem < ulp THEN FALSE
               ELSE (m \div ulp) % 2 = 1
        r   == IF up THEN lo + ulp ELSE lo
    IN  IF BitLen(m) <= HalfBits THEN x
        ELSE IF x < 0 THEN 0 - r ELSE r

\* tensor.unsqueeze(1) and tensor.unsqueeze(2) of a [batch, seq, dim] tensor
Unsqueeze1(t) == [b \in DOMAIN t |-> << t[b] >>]
Unsqueeze2(t) == [b \in DOMAIN t |-> [i \in DOMAIN t[b] |-> << t[b][i] >>]]

\* mutant: q unsqueezed on the same axis as k
QEinsumAxis1(q) == Unsqueeze1(q)

\* line 81: q_einsum = q.unsqueeze(2)
QEinsum(q) == Unsqueeze2(q)

\* line 82: k_einsum = k.unsqueeze(1)
KEinsum(k) == Unsqueeze1(k)

\* half() of every entry of a 4-axis tensor
Half4(t) ==
    [b \in DOMAIN t |-> [i \in DOMAIN t[b] |-> [j \in DOMAIN t[b][i] |->
        [a \in DOMAIN t[b][i][j] |-> Half(t[b][i][j][a])]]]]

Max(x, y) == IF x < y THEN y ELSE x
\* broadcasting: an axis of size 1 is read at index 1
At(n, i) == IF n = 1 THEN 1 ELSE i

RECURSIVE SumFirst(_, _)
SumFirst(s, n) == IF n = 0 THEN 0 ELSE s[n] + SumFirst(s, n - 1)
SumTerms(s) == SumFirst(s, Len(s))

\* one entry of einsum("...i,ijk,...k->...j", x, cayley, y)
Contract(x, cay, y, m) ==
    SumTerms([t \in 1 .. MVDim * MVDim |->
                LET a == ((t - 1) \div MVDim) + 1
                    c == ((t - 1) % MVDim) + 1
                IN  x[a] * cay[a][m][c] * y[c]])

\* fast_einsum(q_einsum, cayley, k_einsum): "...i,ijk,...k->...j" with the leading
\* axes broadcast against each other
FastEinsum(qe, cay, ke) ==
    [b \in DOMAIN qe |->
       [i \in 1 .. Max(Len(qe[b]), Len(ke[b])) |->
          [j \in 1 .. Max(Len(qe[b][At(Len(qe[b]), i)]), Len(ke[b][At(Len(ke[b]), i)])) |->
             [m \in 1 .. MVDim |->
                Contract(qe[b][At(Len(qe[b]), i)][At(Len(qe[b][At(Len(qe[b]), i)]), j)],
                         cay,
                         ke[b][At(Len(ke[b]), i)][At(Len(ke[b][At(Len(ke[b]), i)]), j)],
                         m)]]]]

\* lines 66-77: q and k are projected by q_prj / k_prj and normalized
GPCall(q, k) ==
    /\ gp_pc = "off"
    /\ gp_q' = q
    /\ gp_k' = k
    /\ gp_pc' = "unsqueeze"
    /\ UNCHANGED <<trainerVars, runVars, attVars, netVars, normVars, gp_q_einsum, gp_k_einsum, gp_cayley,
                   gp_output>>

\* lines 80-87: cayley, q.unsqueeze(2), k.unsqueeze(1), contiguous()
GPUnsqueeze ==
    /\ gp_pc = "unsqueeze"
    /\ gp_cayley' = Cayley
    /\ gp_q_einsum' = QEinsum(gp_q)
    /\ gp_k_einsum' = KEinsum(gp_k)
    /\ gp_pc' = "half"
    /\ UNCHANGED <<trainerVars, runVars, attVars, netVars, normVars, gp_q, gp_k, gp_output>>

\* lines 90-92: q_einsum.half(), k_einsum.half(), cayley.half()
GPHalf ==
    /\ gp_pc = "half"
    /\ gp_q_einsum' = Half4(gp_q_einsum)
    /\ gp_k_einsum' = Half4(gp_k_einsum)
    /\ gp_cayley' = [a \in DOMAIN gp_cayley |-> [m \in DOMAIN gp_cayley[a] |->
                       [c \in DOMAIN gp_cayley[a][m] |-> Half(gp_cayley[a][m][c])]]]
    /\ gp_pc' = "einsum"
    /\ UNCHANGED <<trainerVars, runVars, attVars, netVars, normVars, gp_q, gp_k, gp_output>>

\* lines 96-97 and 116: output = fast_einsum(q_einsum, cayley, k_einsum)
GPEinsum ==
    /\ gp_pc = "einsum"
    /\ gp_output' = FastEinsum(gp_q_einsum, gp_cayley, gp_k_einsum)
    /\ gp_pc' = "done"
    /\ UNCHANGED <<trainerVars, runVars, attVars, netVars, normVars, gp_q, gp_k, gp_q_einsum, gp_k_einsum,
                   gp_cayley>>

\* normalized queries and keys, in units of 2^-12
\* the query and the key of one sequence element, in units of 2^-12
SampleQK ==
    { [q |-> << 2049, 0, 1, 0, 0, 0, 0, 0 - 2 >>, k |-> << 1, 0, 0, 0, 0, 0, 0, 0 >>],
      [q |-> << 0, 2, 0 - 1, 0, 0, 0, 3, 0 >>,     k |-> << 0, 1, 4099, 0, 0 - 1, 0, 0, 2 >>],
      [q |-> << 3, 0, 0, 4, 0, 0, 0, 0 >>,         k |-> << 0, 0, 5, 0, 0, 0 - 3, 0, 0 >>] }
QKTensors == UNION { [1 .. B -> [1 .. n -> SampleQK]] : B \in BatchSizes, n \in 1 .. MaxSeq }

InitGP == TrainerOff /\ LayersOff
NextGP ==
    \/ \E qk \in QKTensors :
          GPCall([b \in DOMAIN qk |-> [i \in DOMAIN qk[b] |-> qk[b][i].q]],
                 [b \in DOMAIN qk |-> [i \in DOMAIN qk[b] |-> qk[b][i].k]])
    \/ GPUnsqueeze
    \/ GPHalf
    \/ GPEinsum
SpecGP == InitGP /\ [][NextGP]_vars

(***************************************************************************)
(* SelfAttentionGA (MVFormer.py lines 153-177)                             *)
(***************************************************************************)
\* algebra.embed_grade(x, 1): the coordinates become the grade-1 components
EmbedGrade(pt, g) ==
    [c \in 1 .. MVDim |->
        IF Cardinality(Blades[c]) = g
        THEN pt[Cardinality({ e \in 1 .. c : Cardinality(Blades[e]) = g })]
        ELSE 0]

\* line 158: self.v_proj = nn.Linear(2**algebra.dim, 112)
v_features == 112

\* a weight matrix and a bias for v_proj
VWeight == [d \in 1 .. v_features |-> [a \in 1 .. Pow(2, AlgebraDim) |-> ((d + a) % 3) - 1]]
VBias   == [d \in 1 .. v_features |-> d % 2]

\* nn.Linear applied to the last axis of one element
Linear(W, bias, x) ==
    [d \in DOMAIN W |-> SumTerms([a \in DOMAIN x |-> W[d][a] * x[a]]) + bias[d]]

\* torch.softmax(row, dim=-1) of scores that are whole multiples of ln 3
Softmax(row) ==
    [k \in DOMAIN row |->
        Rat(Pow(3, row[k]), SumTerms([j \in DOMAIN row |-> Pow(3, row[j])]))]

RECURSIVE RatSumFirst(_, _)
RatSumFirst(s, n) ==
    IF n = 0 THEN Rat(0, 1) ELSE Reduce(RatSum(s[n], RatSumFirst(s, n - 1)))
RatSumTerms(s) == RatSumFirst(s, Len(s))

\* mutant: the value axis is contracted against the key axis, "bqk,bkd->bqd"
EinsumBqkBkd(probs, v) ==
    [b \in DOMAIN probs |-> [q \in DOMAIN probs[b] |-> [d \in DOMAIN v[b][1] |->
        RatSumTerms([k \in DOMAIN probs[b][q] |-> RatMul(probs[b][q][k], v[b][k][d])])]]]

\* line 177: torch.einsum("bqk,bvd->bqd", attn_probs, v): k and v occur in one
\* operand each and not in the result, so each is summed over on its own
EinsumBqkBvd(probs, v) ==
    [b \in DOMAIN probs |-> [q \in DOMAIN probs[b] |-> [d \in DOMAIN v[b][1] |->
        RatSumTerms([t \in 1 .. Len(probs[b][q]) * Len(v[b]) |->
            LET k  == ((t - 1) \div Len(v[b])) + 1
                vi == ((t - 1) % Len(v[b])) + 1
            IN  RatMul(probs[b][q][k], v[b][vi][d])])]]]

\* line 163: x = self.algebra.embed_grade(x, 1)
AttCall(points) ==
    /\ sa_pc = "off"
    /\ sa_x' = [b \in DOMAIN points |-> [p \in DOMAIN points[b] |->
                   EmbedGrade(points[b][p], 1)]]
    /\ sa_pc' = "v_proj"
    /\ UNCHANGED <<trainerVars, runVars, netVars, normVars, gpVars, sa_v, sa_mv_attn,
                   sa_attn_probs, sa_out>>

\* line 166: v = self.v_proj(x)
AttValue ==
    /\ sa_pc = "v_proj"
    /\ sa_v' = [b \in DOMAIN sa_x |-> [p \in DOMAIN sa_x[b] |->
                   Linear(VWeight, VBias, sa_x[b][p])]]
    /\ sa_pc' = "ga_attention"
    /\ UNCHANGED <<trainerVars, runVars, netVars, normVars, gpVars, sa_x, sa_mv_attn,
                   sa_attn_probs, sa_out>>

\* line 170: mv_attn = self.ga_attention(x).squeeze(-1), one score for every pair of
\* positions; the scores depend on the learned projections
AttScores(scores) ==
    /\ sa_pc = "ga_attention"
    /\ DOMAIN scores = DOMAIN sa_x
    /\ \A b \in DOMAIN sa_x :
          /\ DOMAIN scores[b] = DOMAIN sa_x[b]
          /\ \A q \in DOMAIN sa_x[b] : DOMAIN scores[b][q] = DOMAIN sa_x[b]
    /\ sa_mv_attn' = scores
    /\ sa_pc' = "softmax"
    /\ UNCHANGED <<trainerVars, runVars, netVars, normVars, gpVars, sa_x, sa_v,
                   sa_attn_probs, sa_out>>

\* line 173: attn_probs = torch.softmax(mv_attn, dim=-1)
AttSoftmax ==
    /\ sa_pc = "softmax"
    /\ sa_attn_probs' = [b \in DOMAIN sa_mv_attn |-> [q \in DOMAIN sa_mv_attn[b] |->
                            Softmax(sa_mv_attn[b][q])]]
    /\ sa_pc' = "einsum"
    /\ UNCHANGED <<trainerVars, runVars, netVars, normVars, gpVars, sa_x, sa_v, sa_mv_attn,
                   sa_out>>

\* line 177: return torch.einsum("bqk,bvd->bqd", attn_probs, v)
AttAggregate ==
    /\ sa_pc = "einsum"
    /\ sa_out' = EinsumBqkBvd(sa_attn_probs, sa_v)
    /\ sa_pc' = "done"
    /\ UNCHANGED <<trainerVars, runVars, netVars, normVars, gpVars, sa_x, sa_v, sa_mv_attn,
                   sa_attn_probs>>

\* the largest score, in units of ln 3
MaxScore == 1

SamplePoints == { << 1, 0, 2 >>, << 0, 3, 1 >> }
PointClouds == UNION { [1 .. B -> [1 .. P -> SamplePoints]] :
                          B \in BatchSizes, P \in 1 .. MaxSeq }

\* score tensors: all scores equal, or every query peaked at one key
ScoreTensors(B, P) ==
    { [b \in 1 .. B |-> [q \in 1 .. P |-> [k \in 1 .. P |-> 0]]] }
    \cup { [b \in 1 .. B |-> [q \in 1 .. P |-> [k \in 1 .. P |->
              IF k = ((q + b + r) % P) + 1 THEN h ELSE 0]]] :
           r \in 0 .. P - 1, h \in 1 .. MaxScore }

InitAtt == TrainerOff /\ LayersOff
NextAtt ==
    \/ \E points \in PointClouds : AttCall(points)
    \/ AttValue
    \/ \E B \in BatchSizes, P \in 1 .. MaxSeq : \E scores \in ScoreTensors(B, P) :
          AttScores(scores)
    \/ AttSoftmax
    \/ AttAggregate
SpecAtt == InitAtt /\ [][NextAtt]_vars

(***************************************************************************)
(* Run directories: main.py lines 166-187, demo/demonet.py lines 55-72.    *)
(* Names are sequences of characters, paths are sequences of names.        *)
(***************************************************************************)
MaxRuns == 2

RECURSIVE SplitFrom(_, _, _)
SplitFrom(str, field, fields) ==
    IF str = << >> THEN Append(fields, field)
    ELSE IF Head(str) = "_" THEN SplitFrom(Tail(str), << >>, Append(fields, field))
         ELSE SplitFrom(Tail(str), Append(field, Head(str)), fields)

\* str.split('_')
Split(str) == SplitFrom(str, << >>, << >>)

\* fields[:-1]
ButLast(fields) == SubSeq(fields, 1, Len(fields) - 1)

Digits == << "0", "1", "2", "3", "4", "5", "6", "7", "8", "9" >>

RECURSIVE Str(_)
\* str(n) of an integer
Str(n) ==
    IF n < 0 THEN << "-" >> \o Str(0 - n)
    ELSE IF n < 10 THEN << Digits[n + 1] >>
         ELSE Str(n \div 10) \o << Digits[(n % 10) + 1] >>

\* str.lower()
LowerChar(ch) == CASE ch = "G" -> "g" [] ch = "A" -> "a" [] OTHER -> ch
Lower(str) == [i \in DOMAIN str |-> LowerChar(str[i])]

\* the names used in paths
Root       == << "/" >>
Up         == << ".", "." >>
Repo       == << "r", "e", "p", "o" >>
DemoName   == << "d", "e", "m", "o" >>
Data       == << "d", "a", "t", "a" >>
Saves      == << "s", "a", "v", "e", "s" >>
PCN        == << "P", "C", "N" >>
Full       == << "f", "u", "l", "l" >>
FineTuning == << "f", "i", "n", "e", "-", "t", "u", "n", "i", "n", "g" >>

RECURSIVE Resolve(_, _)
\* the directory a joined path names: an absolute part restarts the path, ".." leaves
\* a directory
Resolve(parts, at) ==
    IF parts = << >> THEN at
    ELSE IF Head(parts) = Root THEN Resolve(Tail(parts), << Root >>)
         ELSE IF Head(parts) = Up THEN Resolve(Tail(parts), ButLast(at))
              ELSE Resolve(Tail(parts), Append(at, Head(parts)))

\* BASE_DIR of main.py and of demo/demonet.py
MainBase == << Root, Repo >>
DemoBase == << Root, Repo, DemoName >>

\* main.py lines 167-171: os.path.join(BASE_DIR, '..', save_path, pointr_config)
MainSaveDir(cfg) ==
    Resolve(MainBase \o << Up >> \o cfg.save_path \o cfg.pointr_config, << >>)

\* demonet.py line 59: "fine-tuning" if config['pretrained'] else "full"
TrainType(cfg) == IF cfg.pretrained THEN FineTuning ELSE Full

\* demonet.py lines 60-66: os.path.join(BASE_DIR, '..', save_path, pointr_config, train_type)
DemoSaveDir(cfg) ==
    Resolve(DemoBase \o << Up >> \o cfg.save_path \o cfg.pointr_config
                \o << TrainType(cfg) >>, << >>)

\* main.py lines 181-183, demonet.py lines 68-70: the listed names that count
Matching(listing, run_name) ==
    { file \in listing : Split(run_name) = ButLast(Split(file)) }

\* mutant: the demo counts from 0 as main.py does
DemoCounterFromZero(listing, run_name) == Cardinality(Matching(listing, run_name))

\* demonet.py lines 67-70: run_counter = -1, plus one for every match
DemoCounter(listing, run_name) == (0 - 1) + Cardinality(Matching(listing, run_name))

\* main.py lines 180-184: run_counter = 0, plus one for every match, minus one to
\* override the cache
MainCounter(listing, cfg) ==
    LET n == Cardinality(Matching(listing, cfg.run_name))
    IN  IF cfg.override_cache /\ n > 0 THEN n - 1 ELSE n

\* os.makedirs(dir/name, exist_ok=True)
Makedirs(f, dir, name) ==
    [d \in DOMAIN f \cup { Append(dir, name) } |->
        IF d = dir THEN f[d] \cup { name }
        ELSE IF d \in DOMAIN f THEN f[d] ELSE {}]

\* main.py lines 166-187: choose and create the directory of this run;
\* os.listdir raises when save_dir does not exist
MainRun ==
    /\ demo.status = "none"
    /\ Len(runs) < MaxRuns
    /\ LET dir == MainSaveDir(config)
       IN  IF dir \notin DOMAIN fs
           THEN /\ runs' = Append(runs, [cfg |-> config, dir |-> dir, raised |-> TRUE,
                                         index |-> Unbound, created |-> << >>,
                                         fresh |-> FALSE])
                /\ UNCHANGED fs
           ELSE LET run_counter == MainCounter(fs[dir], config)
                    name == Lower(config.run_name) \o << "_" >> \o Str(run_counter)
                IN  /\ fs' = Makedirs(fs, dir, name)
                    /\ runs' = Append(runs, [cfg |-> config, dir |-> dir, raised |-> FALSE,
                                             index |-> run_counter, created |-> name,
                                             fresh |-> name \notin fs[dir]])
    /\ UNCHANGED <<trainerVars, netVars, normVars, gpVars, attVars, config, demo>>

\* demonet.py lines 55-72: "Get latest version"
DemoRun ==
    /\ demo.status = "none"
    /\ LET dir == DemoSaveDir(config)
       IN  IF dir \notin DOMAIN fs
           THEN demo' = [status |-> "raised", dir |-> dir, run_name |-> config.run_name,
                         version |-> << >>]
           ELSE demo' = [status |-> "done", dir |-> dir, run_name |-> config.run_name,
                         version |-> config.run_name \o << "_" >>
                                        \o Str(DemoCounter(fs[dir], config.run_name))]
    /\ UNCHANGED <<trainerVars, netVars, normVars, gpVars, attVars, config, fs, runs>>

\* the configuration file is edited between two programs
EditConfig(cfg) ==
    /\ demo.status = "none"
    /\ cfg # config
    /\ config' = cfg
    /\ UNCHANGED <<trainerVars, netVars, normVars, gpVars, attVars, fs, runs, demo>>

Cfg(name, save, pointr, pre, over) ==
    [run_name |-> name, save_path |-> save, pointr_config |-> pointr,
     pretrained |-> pre, override_cache |-> over]

Configs ==
    { Cfg(<< "g", "a" >>, << Root, Data >>, << PCN, Full >>, FALSE, FALSE),
      Cfg(<< "g", "a" >>, << Root, Data >>, << PCN, Full >>, FALSE, TRUE),
      Cfg(<< "g", "a" >>, << Root, Data >>, << PCN >>, FALSE, FALSE),
      Cfg(<< "G", "a" >>, << Root, Data >>, << PCN, Full >>, FALSE, FALSE),
      Cfg(<< "G", "a" >>, << Root, Data >>, << PCN >>, FALSE, FALSE),
      Cfg(<< "g", "a" >>, << Saves >>, << PCN >>, TRUE, FALSE) }

\* what the run directory holds before the first run
Listings == { {}, { << "l", "o", "g", "s" >> }, { << "g", "a", "_", "1" >> } }

InitRuns ==
    /\ TrainerOff
    /\ NetOff
    /\ NormOff
    /\ GPOff
    /\ AttOff
    /\ config \in Configs
    /\ \E listing \in Listings :
          fs = [d \in { << Root, Data, PCN >>, << Root, Data, PCN, Full >> } |->
                   IF d = << Root, Data, PCN >> THEN { Full } ELSE listing]
    /\ runs = << >>
    /\ demo = [status |-> "none", dir |-> << >>, run_name |-> << >>, version |-> << >>]
NextRuns ==
    \/ MainRun
    \/ DemoRun
    \/ \E cfg \in Configs : EditConfig(cfg)
SpecRuns == InitRuns /\ [][NextRuns]_vars

(***************************************************************************)
(* Reading the history                                                     *)
(***************************************************************************)
\* nothing has fallen out of the history yet
HistoryComplete == Len(log) < LogWindow

LastEvent == IF log = << >> THEN [op |-> "", epoch |-> Unbound, step |-> Unbound, arg |-> 0]
             ELSE log[Len(log)]
PrevEvent == IF Len(log) < 2 THEN [op |-> "", epoch |-> Unbound, step |-> Unbound, arg |-> 0]
             ELSE log[Len(log) - 1]

Count(op) == Cardinality({ i \in DOMAIN log : log[i].op = op })

\* index of the latest event with this operation, 0 when there is none
LastIdx(op) ==
    LET S == { i \in DOMAIN log : log[i].op = op }
    IN  IF S = {} THEN 0 ELSE CHOOSE i \in S : \A j \in S : j <= i

\* the events after the latest event with this operation
Since(op) == SubSeq(log, LastIdx(op) + 1, Len(log))

RECURSIVE Filter(_, _)
Filter(s, ops) ==
    IF s = << >> THEN << >>
    ELSE IF Head(s).op \in ops THEN << Head(s) >> \o Filter(Tail(s), ops)
         ELSE Filter(Tail(s), ops)

RECURSIVE SumArgs(_)
SumArgs(s) == IF s = << >> THEN 0 ELSE Head(s).arg + SumArgs(Tail(s))

BatchOps == << "zero_grad", "forward", "loss", "backward", "optimizer.step" >>
BatchOpSet == { BatchOps[i] : i \in DOMAIN BatchOps }

InBatchBody == pc \in { "t_zero", "t_fwd", "t_loss", "t_bwd", "t_step" }
InTrain == calls = {"train"} /\ pc \notin { "idle", "raised" }
TestPcs == { "e_batch", "e_fwd", "e_loss", "e_del", "e_flush", "e_mean", "e_write" }

(***************************************************************************)
(* C1: in Trainer.train every processed batch runs zero_grad, forward,     *)
(* loss on the last output against the complete cloud, backward and one    *)
(* optimizer step, in that order; the optimizer steps equal the batches    *)
(* processed, and a step is preceded by its batch's zero_grad and backward.*)
(***************************************************************************)
C1_BatchStepOrder ==
    (calls = {"train"}) =>
        /\ HistoryComplete
        /\ LET done == Filter(Since("batch"), BatchOpSet)
                b    == LastIdx("batch")
            IN  /\ Len(done) <= Len(BatchOps)
                /\ \A i \in DOMAIN done :
                       /\ done[i].op = BatchOps[i]
                       /\ b > 0
                       /\ done[i].epoch = log[b].epoch
                       /\ done[i].step = log[b].step
                /\ (b > 0 /\ ~InBatchBody) => Len(done) = Len(BatchOps)
                /\ (b = 0) => done = << >>
                /\ Count("optimizer.step") = opt_steps
                /\ ~InBatchBody => Count("optimizer.step") = Count("batch")
                /\ InBatchBody => Count("optimizer.step") = Count("batch") - 1
                /\ LastEvent.op = "loss" =>
                       LET o == Model(weights, dataloader[step + 1].partial)
                       IN  LastEvent.arg = ChDL1(o[Len(o)], dataloader[step + 1].complete)
                /\ LastEvent.op = "optimizer.step" =>
                       /\ grad = << <<epoch, step>> >>
                       /\ LastEvent.arg = weights

C1_Witness ==
    /\ calls = {"train"}
    /\ pc = "idle"
    /\ opt_steps = 4
    /\ Count("batch") = 4

(***************************************************************************)
(* C2: in Trainer.train and GaTrainer.train the epoch loss is 0 when an    *)
(* epoch starts and, when the epoch ends, is the sum of the losses of the  *)
(* batches processed in that epoch divided by their number.                *)
(***************************************************************************)
C2_EpochLossMean ==
    /\ HistoryComplete
    /\ LastEvent.op = "epoch" => epoch_loss = Rat(0, 1)
    /\ LastEvent.op = "epoch_end" =>
           LET ev == Since("epoch")
           IN  /\ Len(Filter(ev, {"batch"})) >= 1
               /\ RatEq(epoch_loss, Rat(SumArgs(Filter(ev, {"loss"})),
                                        Len(Filter(ev, {"batch"}))))

C2_Witness ==
    /\ LastEvent.op = "epoch_end"
    /\ calls = {"train"}
    /\ debug
    /\ Len(dataloader) >= 2
    /\ epoch_loss.num > 0

(***************************************************************************)
(* C3: a progressive checkpoint is written after a batch exactly when      *)
(* step > 0, step % save_step = 0, progressive_saves is set and debug is   *)
(* not; it is written after that batch's optimizer step and holds the      *)
(* weights that step produced.                                             *)
(***************************************************************************)
C3_ProgressiveSave ==
    (calls = {"train"}) =>
        /\ HistoryComplete
        /\ LastEvent.op = "save" =>
               /\ LastEvent.step > 0
               /\ LastEvent.step % save_step = 0
               /\ progressive
               /\ ~debug
               /\ PrevEvent.op = "optimizer.step"
               /\ PrevEvent.epoch = LastEvent.epoch
               /\ PrevEvent.step = LastEvent.step
               /\ LastEvent.arg \in DOMAIN files.ckpt
               /\ files.ckpt[LastEvent.arg] =
                      [epoch |-> LastEvent.epoch, model |-> PrevEvent.arg,
                       optimizer |-> Count("optimizer.step")]
        /\ (pc = "t_del" /\ step > 0 /\ step % save_step = 0 /\ progressive /\ ~debug)
               => (LastEvent.op = "save" /\ LastEvent.epoch = epoch /\ LastEvent.step = step)

C3_Witness ==
    /\ calls = {"train"}
    /\ LastEvent.op = "save"
    /\ LastEvent.epoch = 1
    /\ LastEvent.step = 1
    /\ pc = "t_del"

(***************************************************************************)
(* C4: with at least one epoch and a non-empty dataloader Trainer.train    *)
(* ends by writing one checkpoint to training/final whose epoch is the     *)
(* last epoch executed, with loss_trend in train_losses.json, after the    *)
(* last optimizer step and after every progressive checkpoint.             *)
(***************************************************************************)
C4_FinalCheckpoint ==
    (calls = {"train"}) =>
        /\ HistoryComplete
        /\ Count("final") <= 1
        /\ (pc = "raised") => (train_epochs = 0 \/ dataloader = << >>)
        /\ (pc = "idle") =>
               /\ train_epochs >= 1
               /\ dataloader # << >>
               /\ Count("final") = 1
               /\ LastEvent.op = "final"
               /\ files.final =
                      << [epoch |-> log[LastIdx("epoch")].epoch,
                          model |-> Count("optimizer.step"),
                          optimizer |-> Count("optimizer.step")] >>
               /\ log[LastIdx("epoch")].epoch = (IF debug THEN 0 ELSE train_epochs - 1)
               /\ files.train_losses = << loss_trend >>
        /\ (pc # "idle") => (files.final = << >> /\ files.train_losses = << >>)

C4_Witness ==
    /\ calls = {"train"}
    /\ pc = "idle"
    /\ train_epochs = 2
    /\ Count("save") >= 1
    /\ files.final # << >>

(***************************************************************************)
(* C9: Trainer.test performs no zero_grad, backward or optimizer step and  *)
(* leaves loss_trend alone; it visits every batch once, sets test_loss to  *)
(* the sum of the batch losses divided by the number of batches and writes *)
(* that value to evaluation/test_loss.txt.                                 *)
(***************************************************************************)
C9_TestResult ==
    ("test" \in calls /\ pc \in {"e_write", "idle"}) =>
        LET ev == Since("test")
            bs == Filter(ev, {"batch"})
        IN  /\ HistoryComplete
            /\ Len(bs) = Len(dataloader)
            /\ \A i \in DOMAIN bs : bs[i].step = i - 1
            /\ Filter(ev, {"zero_grad", "backward", "optimizer.step", "scheduler.step",
                           "save", "final"}) = << >>
            /\ RatEq(test_loss, Rat(SumArgs(Filter(ev, {"loss"})), Len(dataloader)))
            /\ pc = "idle" => files.test_loss_txt = << << "Test Loss: ", test_loss >> >>

C9_TestFrame ==
    (pc \in TestPcs) =>
        UNCHANGED <<loss_trend, weights, grad, opt_steps, sched_steps,
                    files.ckpt, files.final, files.train_losses>>

C9_TestReadOnly == [](C9_TestResult) /\ [][C9_TestFrame]_vars

C9_Witness ==
    /\ calls = {"train", "test"}
    /\ pc = "idle"
    /\ Len(dataloader) = 2
    /\ loss_trend # << >>
    /\ test_loss.num > 0

(***************************************************************************)
(* C8: the garbage-collect / empty_cache flush runs after a batch exactly  *)
(* when step > 0 and step % 500 = 0, in Trainer.train and in Trainer.test, *)
(* and always after the batch's partial, complete, output and loss have    *)
(* been deleted.  Trainer.train never flushes in debug mode (debug leaves  *)
(* the loop after step 0); Trainer.test does not look at debug.            *)
(***************************************************************************)
C8_FlushWhen ==
    /\ LastEvent.op = "flush" =>
           /\ LastEvent.step > 0
           /\ LastEvent.step % 500 = 0
           /\ LastEvent.arg = 0
           /\ refs = {}
           /\ PrevEvent.op = "del"
           /\ PrevEvent.epoch = LastEvent.epoch
           /\ PrevEvent.step = LastEvent.step
           /\ "test" \notin calls => ~debug
    /\ (LastEvent.op = "del" /\ pc \notin {"t_flush", "e_flush"})
           => ~(step > 0 /\ step % 500 = 0)

C8_Witness ==
    /\ LastEvent.op = "flush"
    /\ LastEvent.step = 500
    /\ LastEvent.epoch = 0
    /\ calls = {"train"}
    /\ progressive

\* C8 as stated: the flush never runs in debug mode
C8_NeverInDebug ==
    C8_FlushWhen /\ (LastEvent.op = "flush" => ~debug)

(***************************************************************************)
(* C10: InvariantCGENN.forward maps an input of shape [B, in_features,     *)
(* 2^d] to an output of shape [B, in_features, d]; the flattened hidden    *)
(* state has hidden_features * 2^d entries per sample, the input size of   *)
(* the final linear layer.                                                 *)
(***************************************************************************)
C10_OutputShape ==
    /\ cg_pc # "error"
    /\ cg_pc = "upsampling" =>
           /\ Len(cg_h) = 2
           /\ cg_h[2] = cg_net.hidden_features * Pow(2, cg_net.dim)
           /\ cg_h[2] = cg_net.upsampling.in_features
    /\ cg_pc = "done" =>
           /\ cg_input = << cg_input[1], cg_net.in_features, Pow(2, cg_net.dim) >>
           /\ cg_h = << cg_input[1], cg_net.in_features, cg_net.dim >>

C10_Witness ==
    /\ cg_pc = "done"
    /\ cg_net.dim = 3
    /\ cg_input = << 2, 3, 8 >>
    /\ cg_h = << 2, 3, 3 >>
    /\ cg_net.hidden_features = 2

(***************************************************************************)
(* C7: NormalizationLayer.forward divides every component of grade g of    *)
(* the multivector at position p by s*(n-1)+1 (+1e-6), n the grade-g norm  *)
(* of that multivector and s = sigmoid(a[p,g]) strictly between 0 and 1;   *)
(* the factor lies between 1 and n.                                        *)
(***************************************************************************)
C7_PerGradeRescale ==
    nl_pc = "done" =>
        \A b \in DOMAIN nl_input : \A p \in DOMAIN nl_input[b] : \A c \in 1 .. MVDim :
            LET g == GradeOf(c)
                n == Norms(nl_input[b][p])[g]
                s == Sigmoid(Row(nl_a, p)[g])
                f == Rat(s.num * (n - 1) + s.den, s.den)
                lo == IF n < 1 THEN n ELSE 1
                hi == IF n < 1 THEN 1 ELSE n
            IN  /\ 0 < s.num /\ s.num < s.den
                /\ lo * f.den <= f.num /\ f.num <= hi * f.den
                /\ Reduce(nl_out[b][p][c]) =
                       Reduce(Rat(nl_input[b][p][c] * f.den * EpsDen, f.num * EpsDen + f.den))

C7_Witness ==
    /\ nl_pc = "done"
    /\ Len(nl_input) = 2
    /\ Len(nl_input[1]) = 2
    /\ nl_input[2][2] = << 0, 1, 0 - 2, 2, 2, 3, 6, 3 >>
    /\ Row(nl_a, 2) = << 0 - 1, 1, 0, 2 >>
    /\ Row(nl_a, 1) # Row(nl_a, 2)
    /\ nl_out[2][2][5] # nl_out[2][2][2]

(***************************************************************************)
(* C6: for a sequence of n multivectors the layer returns one multivector  *)
(* per ordered pair (i, j), shape [batch, n, n, 2^d], and the entry for    *)
(* (i, j) is the contraction through the Cayley tensor of q_i and k_j as   *)
(* converted to half precision:                                            *)
(*   out[b,i,j,m] = sum over a, c of half(q[b,i,a]) * cayley[a,m,c]        *)
(*                                   * half(k[b,j,c]).                     *)
(***************************************************************************)
PairProduct(x, y, m) ==
    SumTerms([t \in 1 .. MVDim * MVDim |->
                x[((t - 1) \div MVDim) + 1]
                * Cayley[((t - 1) \div MVDim) + 1][m][((t - 1) % MVDim) + 1]
                * y[((t - 1) % MVDim) + 1]])

HalfMV(x) == [a \in DOMAIN x |-> Half(x[a])]

PairShape ==
    /\ DOMAIN gp_output = DOMAIN gp_q
    /\ \A b \in DOMAIN gp_q :
          /\ DOMAIN gp_output[b] = DOMAIN gp_q[b]
          /\ \A i \in DOMAIN gp_q[b] :
                /\ DOMAIN gp_output[b][i] = DOMAIN gp_k[b]
                /\ \A j \in DOMAIN gp_k[b] : DOMAIN gp_output[b][i][j] = 1 .. Pow(2, AlgebraDim)

RowsSumToOne ==
    \A b \in DOMAIN sa_attn_probs : \A q \in DOMAIN sa_attn_probs[b] :
        Reduce(RatSumTerms(sa_attn_probs[b][q])) = Rat(1, 1)

C5_WeightedAggregation ==
    sa_pc = "done" =>
        /\ RowsSumToOne
        /\ \A b \in DOMAIN sa_x : \A q \in DOMAIN sa_x[b] : \A d \in 1 .. v_features :
              sa_out[b][q][d] =
                 RatSumTerms([k \in DOMAIN sa_x[b] |->
                                 RatMul(sa_attn_probs[b][q][k], sa_v[b][k][d])])

\* what line 177 returns instead: the plain sum of all value vectors of the batch
\* element, the same for every query position
C5_SumOfValues ==
    sa_pc = "done" =>
        \A b \in DOMAIN sa_x : \A q \in DOMAIN sa_x[b] : \A d \in 1 .. v_features :
            /\ sa_out[b][q][d] = Rat(SumTerms([k \in DOMAIN sa_x[b] |-> sa_v[b][k][d]]), 1)
            /\ sa_out[b][q] = sa_out[b][1]

\* two query positions with different attention rows over different values
C5_FailingInput ==
    /\ sa_pc = "done"
    /\ Len(sa_x) = 1
    /\ Len(sa_x[1]) = 2
    /\ sa_x[1][1] # sa_x[1][2]
    /\ sa_attn_probs[1][1] # sa_attn_probs[1][2]

(***************************************************************************)
(* C11: after Trainer.train on a fresh Trainer, loss_trend has one key     *)
(* "epoch_<e>" for every executed epoch e and no other key, and the list   *)
(* under that key holds the losses of the batches processed in epoch e,    *)
(* one per batch, in processing order.                                     *)
(***************************************************************************)
RECURSIVE EpochLosses(_, _)
EpochLosses(s, e) ==
    IF s = << >> THEN << >>
    ELSE IF Head(s).op = "loss" /\ Head(s).epoch = e
         THEN << Head(s).arg >> \o EpochLosses(Tail(s), e)
         ELSE EpochLosses(Tail(s), e)

ExecutedEpochs == { log[i].epoch : i \in { j \in DOMAIN log : log[j].op = "epoch" } }

\* the loss of the running batch is computed but not yet collected
LossPending == pc \in { "t_bwd", "t_step", "t_collect" }

C11_LossTrendKeys ==
    ("train" \in calls) =>
        /\ HistoryComplete
        /\ ~LossPending =>
               /\ DOMAIN loss_trend =
                      { EpochKey(e) : e \in { x \in ExecutedEpochs : EpochLosses(log, x) # << >> } }
               /\ \A e \in ExecutedEpochs :
                      EpochKey(e) \in DOMAIN loss_trend =>
                          loss_trend[EpochKey(e)] = EpochLosses(log, e)
        /\ (pc = "idle") =>
               /\ DOMAIN loss_trend = { EpochKey(e) : e \in ExecutedEpochs }
               /\ \A e \in ExecutedEpochs :
                      Len(loss_trend[EpochKey(e)]) =
                          Cardinality({ i \in DOMAIN log : log[i].op = "batch" /\ log[i].epoch = e })

C11_Witness ==
    /\ calls = {"train"}
    /\ pc = "idle"
    /\ DOMAIN loss_trend = { EpochKey(0), EpochKey(1) }
    /\ Len(loss_trend[EpochKey(1)]) = 2
    /\ loss_trend[EpochKey(1)][1] # loss_trend[EpochKey(1)][2]

(***************************************************************************)
(* C12: in debug mode Trainer.train, given at least one epoch and a        *)
(* non-empty dataloader, processes exactly one batch of exactly one epoch  *)
(* (one optimizer step in total) and writes no progressive checkpoint;     *)
(* with zero epochs or an empty dataloader it processes no batch and       *)
(* raises.                                                                 *)
(***************************************************************************)
TrainEnded == calls = {"train"} /\ pc \in { "idle", "raised" }

OneBatchOneEpoch ==
    /\ opt_steps = 1
    /\ Count("batch") = 1
    /\ Count("epoch") = 1
    /\ Count("save") = 0
    /\ files.ckpt = << >>

C12_DebugOneBatch ==
    (debug /\ calls = {"train"}) =>
        /\ HistoryComplete
        /\ opt_steps <= 1
        /\ Count("batch") <= 1
        /\ Count("epoch") <= 1
        /\ Count("save") = 0
        /\ files.ckpt = << >>
        /\ (pc = "idle") =>
               /\ OneBatchOneEpoch
               /\ log[LastIdx("batch")].epoch = 0
               /\ log[LastIdx("batch")].step = 0
        /\ (pc = "raised") => (opt_steps = 0 /\ Count("batch") = 0)
        /\ (pc = "raised") <=> (TrainEnded /\ (train_epochs = 0 \/ dataloader = << >>))

C12_Witness ==
    /\ debug
    /\ progressive
    /\ calls = {"train"}
    /\ pc = "idle"
    /\ train_epochs = 2
    /\ Len(dataloader) = 2
    /\ opt_steps = 1

\* C12 as stated: one batch whatever the epoch count and the dataloader length
C12_DebugAlwaysOneBatch ==
    (debug /\ TrainEnded) => OneBatchOneEpoch

(***************************************************************************)
(* C13: with a scheduler configured Trainer.train calls scheduler.step     *)
(* exactly once per executed epoch, after the last optimizer step of that  *)
(* epoch and before the first optimizer step of the next one; without a    *)
(* scheduler it is never called.                                           *)
(***************************************************************************)
OpsOf(op, e) == { i \in DOMAIN log : log[i].op = op /\ log[i].epoch = e }

\* the epochs whose batch loop is over
EndedEpochs ==
    { e \in ExecutedEpochs : e < epoch \/ pc \in { "t_epoch", "t_final", "idle", "raised" }
                                       \/ "test" \in calls }

C13_SchedulerOncePerEpoch ==
    ("train" \in calls) =>
        /\ HistoryComplete
        /\ sched_steps = Count("scheduler.step")
        /\ ~scheduler => sched_steps = 0
        /\ scheduler =>
               /\ \A e \in ExecutedEpochs :
                      /\ Cardinality(OpsOf("scheduler.step", e)) = (IF e \in EndedEpochs THEN 1 ELSE 0)
                      /\ \A i \in OpsOf("scheduler.step", e) :
                             /\ \A j \in OpsOf("optimizer.step", e) : j < i
                             /\ \A j \in OpsOf("epoch", e) : j < i
                             /\ \A j \in OpsOf("optimizer.step", e + 1) : i < j
                             /\ \A j \in OpsOf("epoch", e + 1) : i < j
               /\ sched_steps = Cardinality(EndedEpochs)
        /\ \A i \in DOMAIN log : log[i].op = "scheduler.step" => log[i].epoch \in ExecutedEpochs

C13_Witness ==
    /\ scheduler
    /\ calls = {"train"}
    /\ pc = "idle"
    /\ train_epochs = 2
    /\ sched_steps = 2
    /\ opt_steps = 4

(***************************************************************************)
(* C14: the parameter a has max_seq = 3000 rows; for an input of sequence  *)
(* length L <= 3000, position p is scaled with row p of a and              *)
(* NormalizationLayer.forward succeeds; for L > 3000 the sliced parameter  *)
(* does not broadcast against the norms and forward raises.                *)
(***************************************************************************)
SeqLen == Len(nl_input[1])

C14_PositionRows ==
    (nl_features = MVDim /\ nl_pc # "init") =>
        /\ nl_a.rows = 3000
        /\ (nl_pc = "error") => SeqLen > 3000
        /\ (nl_pc \in { "repeat", "divide", "done" }) => SeqLen <= 3000
        /\ (SeqLen > 3000 /\ nl_pc = "interpolate") =>
               ENABLED (NormInterpolate /\ nl_pc' = "error")
        /\ (nl_pc = "repeat") =>
               \A b \in DOMAIN nl_input : \A p \in 1 .. SeqLen : \A g \in 1 .. NSubspaces :
                   nl_norms[b][p][g] =
                       Interpolate(Sigmoid(Row(nl_a, p)[g]), Norms(nl_input[b][p])[g])
        /\ (SeqLen <= 3000 /\ nl_pc = "interpolate") =>
               ENABLED (NormInterpolate /\ nl_pc' = "repeat")

C14_Witness ==
    /\ nl_features = MVDim
    /\ nl_pc = "done"
    /\ SeqLen = 3000
    /\ Row(nl_a, 1) # Row(nl_a, 3000)
    /\ nl_out[1][1] # nl_out[1][3000]

\* C14 as stated: forward succeeds for a sequence of any length
C14_AnyLength ==
    (nl_features = MVDim) => nl_pc # "error"

(***************************************************************************)
(* C15: with N >= 1 names in the listed directory whose fields but the     *)
(* last equal run_name, demonet selects run_name_(N-1); when those N       *)
(* directories are the ones runs of main.py with this run_name created     *)
(* there without override_cache, that is the directory of the most recent  *)
(* of those runs.                                                          *)
(***************************************************************************)
ThoseRuns ==
    { i \in DOMAIN runs : /\ ~runs[i].raised
                          /\ runs[i].dir = demo.dir
                          /\ runs[i].cfg.run_name = demo.run_name }

Latest(S) == CHOOSE i \in S : \A j \in S : j <= i

\* the counted directories are the ones those runs created, none overriding the cache
SavedByThoseRuns ==
    /\ Matching(fs[demo.dir], demo.run_name) =
           { runs[i].created : i \in { j \in ThoseRuns : runs[j].fresh } }
    /\ \A i \in ThoseRuns : ~runs[i].cfg.override_cache

SaveEvents == { i \in DOMAIN log : log[i].op = "save" }

C16_DistinctDirs ==
    (calls = {"train"} /\ HistoryComplete) =>
        /\ \A i, j \in SaveEvents :
               (<< log[i].epoch, log[i].step >> # << log[j].epoch, log[j].step >>)
                   => log[i].arg # log[j].arg
        /\ Cardinality(DOMAIN files.ckpt) = Cardinality(SaveEvents)

\* the checkpoint of epoch 0, step 2 has just been overwritten by that of epoch 1, step 1
C16_Overwritten ==
    /\ calls = {"train"}
    /\ LastEvent.op = "save"
    /\ LastEvent.epoch = 1
    /\ LastEvent.step = 1
    /\ \E i \in SaveEvents : log[i].epoch = 0 /\ log[i].step = 2 /\ log[i].arg = LastEvent.arg
    /\ files.ckpt[LastEvent.arg].epoch = 1

(***************************************************************************)
(* C17: degenerate inputs end in an error, not in a partial result.        *)
(* Trainer.train called with epochs = 0 or with an empty dataloader raises *)
(* before anything is written to training/final; Trainer.test called with  *)
(* an empty dataloader raises before test_loss is changed and before       *)
(* test_loss.txt is written.                                               *)
(***************************************************************************)
DegenerateTrain == calls = {"train"} /\ (train_epochs = 0 \/ dataloader = << >>)
DegenerateTest  == "test" \in calls /\ dataloader = << >>

C17_DegenerateRaises ==
    /\ DegenerateTrain =>
           /\ pc \in { "t_epoch", "t_batch", "t_sched", "t_final", "raised" }
           /\ files.final = << >>
           /\ files.train_losses = << >>
           /\ Count("final") = 0
           /\ pc = "t_final" => /\ ENABLED (TrainFinal /\ pc' = "raised")
                                /\ ~ ENABLED (TrainFinal /\ pc' # "raised")
           /\ pc = "t_sched" => /\ ENABLED (TrainEpochEnd /\ pc' = "raised")
                                /\ ~ ENABLED (TrainEpochEnd /\ pc' # "raised")
           /\ pc = "raised" => LastEvent.op = "raise"
    /\ DegenerateTest =>
           /\ pc \in { "e_batch", "e_mean", "raised" }
           /\ test_loss = Rat(0, 1)
           /\ files.test_loss_txt = << >>
           /\ Count("test_loss") = 0 /\ Count("test_write") = 0
           /\ pc = "e_mean" => /\ ENABLED (TestSetLoss /\ pc' = "raised")
                               /\ ~ ENABLED (TestSetLoss /\ pc' # "raised")
           /\ pc = "raised" => LastEvent.op = "raise"

\* a call with a degenerate input has raised: train with zero epochs, train with an
\* empty dataloader and at least one epoch, or test with an empty dataloader
C17_Witness ==
    /\ pc = "raised"
    /\ \/ DegenerateTrain /\ train_epochs = 0 /\ dataloader # << >>
       \/ DegenerateTest /\ files.final # << >>

====
